---- MODULE Spec2Model ----
(***************************************************************************)
(* One render cycle of the agent-performance dashboard (src/dash-cc.py):   *)
(* load_data, then main: empty-data guard, sidebar filters, filtering,     *)
(* overview KPIs, per-agent ranking with calculate_performance_score,      *)
(* best-agent gauge and the remaining sections.                            *)
(*                                                                         *)
(* Conventions.  A DataFrame is a sequence of records (rows, in file       *)
(* order).  A missing cell of the agent or zone column is NaN.  Dates are  *)
(* day numbers.  Scores are exact rationals <<n, d>> with d > 0 (d = 0     *)
(* stands for the nan/inf of a division by zero); the weights 2, 3, 1.5,   *)
(* 2, 1.5, 1.8 are carried in tenths (20, 30, 15, 20, 15, 18), which       *)
(* leaves the ratio unchanged.  Floating-point rounding is not modelled.   *)
(***************************************************************************)
EXTENDS Integers, Sequences, FiniteSets, TLC

VARIABLES
    remote,            \* what the data clip answers: [status, rows]
    pc,                \* position of main in the render cycle
    df,                \* DataFrame returned by load_data
    rendered,          \* the streamlit elements shown so far, in order
    start_date, end_date, selected_agent, selected_zone,
    agents, zones,     \* option lists of the two select boxes
    filtered_df,
    kpi,               \* the eight overview metrics
    agent_performance, \* rows appended by the per-agent loop
    performance_df,    \* agent_performance sorted by score
    best_agent         \* rows handed to the gauge (at most one)

vars == <<remote, pc, df, rendered, start_date, end_date, selected_agent,
          selected_zone, agents, zones, filtered_df, kpi, agent_performance,
          performance_df, best_agent>>

\* ------------------------------------------------------------------ bounds
MaxRows == 2
MaxScoreRows == 3
MaxDate == 2

\* ------------------------------------------------------------- input data
NaN == "NaN"
Tous == "Tous"
Toutes == "Toutes"

AgentNames == {"a", "b"}
ZoneNames == {"n"}

\* Python's order on the strings used as agent and zone names.
NameOrder == <<"a", "b", "n">>

MetricColumns ==
    {"total_interaction_appel_par_agent", "total_commandes_journalier",
     "total_notation_par_agent", "total_reclamation_par_agent",
     "total_suivi_reclamation_par_agent",
     "total_suivi_livraison_impossible_par_agent",
     "total_sku_par_agent", "moyenne_sku_par_commande"}

Metrics(i, c, n, r, s, l, k, m) ==
    [total_interaction_appel_par_agent |-> i,
     total_commandes_journalier |-> c,
     total_notation_par_agent |-> n,
     total_reclamation_par_agent |-> r,
     total_suivi_reclamation_par_agent |-> s,
     total_suivi_livraison_impossible_par_agent |-> l,
     total_sku_par_agent |-> k,
     moyenne_sku_par_commande |-> m]

\* Metric cells of one CSV line: no activity, positive activity only,
\* mostly complaints, and a mix.
Profiles ==
    { Metrics(0, 0, 0, 0, 0, 0, 0, 0),
      Metrics(1, 1, 0, 0, 0, 0, 2, 2),
      Metrics(0, 0, 2, 1, 0, 1, 1, 1),
      Metrics(2, 0, 0, 1, 1, 0, 1, 1) }

Row(d, a, z, p) == [date |-> d, agent |-> a, zone |-> z] @@ p

FilterRows ==
    { Row(d, a, z, Metrics(1, 1, 0, 1, 0, 0, 2, 2)) :
        d \in 1..MaxDate, a \in AgentNames \cup {NaN}, z \in ZoneNames \cup {NaN} }

\* Two lines with a missing cell, so that a selection can come out empty and
\* a view can hold no named agent.
MissingRows ==
    { Row(1, "a", NaN, Metrics(1, 1, 0, 0, 0, 0, 2, 2)),
      Row(1, NaN, "n", Metrics(0, 0, 2, 1, 0, 1, 1, 1)) }

ScoreRows ==
    { Row(1, a, "n", p) : a \in AgentNames, p \in Profiles } \cup MissingRows

SeqsUpTo(S, n) == UNION { [1..k -> S] : k \in 0..n }

Failures == {"timeout", "http_error", "bad_csv", "no_date_column"}

Responses(rows, n) ==
    { [status |-> "ok", rows |-> r] : r \in SeqsUpTo(rows, n) }
        \cup { [status |-> f, rows |-> <<>>] : f \in Failures }

\* ---------------------------------------------------------------- helpers
RECURSIVE Sum(_, _)
Sum(frame, col) ==
    IF frame = <<>> THEN 0 ELSE Head(frame)[col] + Sum(Tail(frame), col)

RECURSIVE Unique(_)
Unique(s) ==
    IF s = <<>> THEN <<>>
    ELSE LET rest == Unique(SelectSeq(Tail(s), LAMBDA x : x # Head(s)))
         IN  <<Head(s)>> \o rest

Column(frame, col) == [i \in 1..Len(frame) |-> frame[i][col]]

Range(s) == { s[i] : i \in 1..Len(s) }

DropNa(s) == SelectSeq(s, LAMBDA x : x # NaN)

NUnique(s) == Len(Unique(DropNa(s)))

Sorted(s) == SelectSeq(NameOrder, LAMBDA x : x \in Range(s))

MinOf(S) == CHOOSE x \in S : \A y \in S : x <= y
MaxOf(S) == CHOOSE x \in S : \A y \in S : y <= x

\* ------------------------------------------------------------------ score
Zero == <<0, 1>>

Div(n, d) == IF d < 0 THEN <<-n, -d>> ELSE <<n, d>>

Times100(q) == <<100 * q[1], q[2]>>

\* Python's min(score, 100): 100 only when 100 < score.
Min100(q) == IF 100 * q[2] < q[1] THEN <<100, 1>> ELSE q

ScoreLess(x, y) == x[1] * y[2] < y[1] * x[2]

ScoreEq(x, y) == x[1] * y[2] = y[1] * x[2]

score_positif(agent_data) ==
    LET interactions == Sum(agent_data, "total_interaction_appel_par_agent")
        commandes == Sum(agent_data, "total_commandes_journalier")
        notations == Sum(agent_data, "total_notation_par_agent")
    IN  (interactions * 20) + (commandes * 30) + (notations * 15)

score_negatif(agent_data) ==
    LET reclamations == Sum(agent_data, "total_reclamation_par_agent")
        suivi_reclamations == Sum(agent_data, "total_suivi_reclamation_par_agent")
        livraison_impossible ==
            Sum(agent_data, "total_suivi_livraison_impossible_par_agent")
    IN  (reclamations * 20) + (suivi_reclamations * 15) + (livraison_impossible * 18)

\* score without the zero test before the division.
ScoreUnguarded(positif, negatif) ==
    Min100(Times100(Div(positif, positif + negatif)))

\* score dividing by the difference of the two sums.
ScoreOfDifference(positif, negatif) ==
    IF positif + negatif = 0 THEN Zero
    ELSE Min100(Times100(Div(positif, positif - negatif)))

score(positif, negatif) ==
    IF positif + negatif = 0 THEN Zero
    ELSE Min100(Times100(Div(positif, positif + negatif)))

calculate_performance_score(agent_data) ==
    IF Len(agent_data) = 0 THEN Zero
    ELSE score(score_positif(agent_data), score_negatif(agent_data))

\* ---------------------------------------------------------------- filters
\* pandas ==: a missing value equals nothing, itself included.
PdEq(x, y) == x # NaN /\ y # NaN /\ x = y

\* DateFilter with the end of the period excluded.
DateFilterBeforeEnd(frame, s, e) ==
    SelectSeq(frame, LAMBDA r : r.date >= s /\ r.date < e)

DateFilter(frame, s, e) ==
    SelectSeq(frame, LAMBDA r : r.date >= s /\ r.date <= e)

\* AgentFilter comparing with the selection even when it is 'Tous'.
AgentFilterWithoutTous(frame, sel) ==
    SelectSeq(frame, LAMBDA r : PdEq(r.agent, sel))

AgentFilter(frame, sel) ==
    IF sel # Tous THEN SelectSeq(frame, LAMBDA r : PdEq(r.agent, sel)) ELSE frame

ZoneFilter(frame, sel) ==
    IF sel # Toutes THEN SelectSeq(frame, LAMBDA r : PdEq(r.zone, sel)) ELSE frame

ApplyFilters(frame, s, e, a, z) ==
    ZoneFilter(AgentFilter(DateFilter(frame, s, e), a), z)

\* ---------------------------------------------------------------- ranking
\* AgentData without the restriction to the agent.
AgentDataWholeFrame(frame, agent) == frame

AgentData(frame, agent) == SelectSeq(frame, LAMBDA r : PdEq(r.agent, agent))

PerformanceRow(frame, agent) ==
    LET agent_data == AgentData(frame, agent)
    IN  [Agent |-> agent,
         Score |-> calculate_performance_score(agent_data),
         Commandes |-> Sum(agent_data, "total_commandes_journalier"),
         Interactions |-> Sum(agent_data, "total_interaction_appel_par_agent"),
         Reclamations |-> Sum(agent_data, "total_reclamation_par_agent"),
         SuiviReclamations |-> Sum(agent_data, "total_suivi_reclamation_par_agent"),
         LivraisonsImpossibles |->
             Sum(agent_data, "total_suivi_livraison_impossible_par_agent"),
         NotationsLivreurs |-> Sum(agent_data, "total_notation_par_agent"),
         SKUTotal |-> Sum(agent_data, "total_sku_par_agent")]

\* LoopAgents without the pd.isna skip.
LoopAgentsKeepNa(frame) == Unique(Column(frame, "agent"))

LoopAgents(frame) == DropNa(Unique(Column(frame, "agent")))

AgentPerformance(frame) ==
    LET loop == LoopAgents(frame)
    IN  [i \in 1..Len(loop) |-> PerformanceRow(frame, loop[i])]

Perms(n) ==
    { p \in [1..n -> 1..n] : \A i, j \in 1..n : i # j => p[i] # p[j] }

\* sort_values('Score Performance', ascending=False) with the default
\* quicksort: descending by score, rows of equal score in no defined order.
SortValues(table) ==
    { [i \in 1..Len(table) |-> table[p[i]]] : p \in
        { q \in Perms(Len(table)) :
            \A i \in 1..(Len(table) - 1) :
                ~ScoreLess(table[q[i]].Score, table[q[i + 1]].Score) } }

Overview(frame) ==
    [total_agents |-> NUnique(Column(frame, "agent")),
     total_commandes |-> Sum(frame, "total_commandes_journalier"),
     total_interactions |-> Sum(frame, "total_interaction_appel_par_agent"),
     avg_sku |-> <<Sum(frame, "moyenne_sku_par_commande"), Len(frame)>>,
     total_reclamations |-> Sum(frame, "total_reclamation_par_agent"),
     total_suivi_reclamations |-> Sum(frame, "total_suivi_reclamation_par_agent"),
     total_livraison_impossible |->
         Sum(frame, "total_suivi_livraison_impossible_par_agent"),
     total_notations |-> Sum(frame, "total_notation_par_agent")]

NoKpi ==
    [total_agents |-> 0, total_commandes |-> 0, total_interactions |-> 0,
     avg_sku |-> <<0, 0>>, total_reclamations |-> 0,
     total_suivi_reclamations |-> 0, total_livraison_impossible |-> 0,
     total_notations |-> 0]

\* ------------------------------------------------------------------- init
Start(resp) ==
    /\ remote = resp
    /\ pc = "start"
    /\ df = <<>>
    /\ rendered = <<"title">>
    /\ start_date = 0
    /\ end_date = 0
    /\ selected_agent = Tous
    /\ selected_zone = Toutes
    /\ agents = <<>>
    /\ zones = <<>>
    /\ filtered_df = <<>>
    /\ kpi = NoKpi
    /\ agent_performance = <<>>
    /\ performance_df = <<>>
    /\ best_agent = <<>>

Init == \E resp \in Responses(FilterRows, MaxRows) : Start(resp)

InitScore == \E resp \in Responses(ScoreRows, MaxScoreRows) : Start(resp)

\* ---------------------------------------------------------------- actions
LoadData ==
    /\ pc = "start"
    /\ remote.status = "ok"
    /\ df' = remote.rows
    /\ pc' = "loaded"
    /\ UNCHANGED <<remote, rendered, start_date, end_date, selected_agent,
                   selected_zone, agents, zones, filtered_df, kpi,
                   agent_performance, performance_df, best_agent>>

LoadDataFails ==
    /\ pc = "start"
    /\ remote.status # "ok"
    /\ rendered' = Append(rendered, "error: Erreur lors du chargement")
    /\ df' = <<>>
    /\ pc' = "loaded"
    /\ UNCHANGED <<remote, start_date, end_date, selected_agent,
                   selected_zone, agents, zones, filtered_df, kpi,
                   agent_performance, performance_df, best_agent>>

\* NoData without the return.
NoDataFallsThrough ==
    /\ pc = "loaded"
    /\ df = <<>>
    /\ rendered' = Append(rendered, "error: Impossible de charger")
    /\ pc' = "filters"
    /\ UNCHANGED <<remote, df, start_date, end_date, selected_agent,
                   selected_zone, agents, zones, filtered_df, kpi,
                   agent_performance, performance_df, best_agent>>

NoData ==
    /\ pc = "loaded"
    /\ df = <<>>
    /\ rendered' = Append(rendered, "error: Impossible de charger")
    /\ pc' = "done"
    /\ UNCHANGED <<remote, df, start_date, end_date, selected_agent,
                   selected_zone, agents, zones, filtered_df, kpi,
                   agent_performance, performance_df, best_agent>>

Sidebar ==
    /\ pc = "loaded"
    /\ df # <<>>
    /\ LET date_min == MinOf(Range(Column(df, "date")))
           date_max == MaxOf(Range(Column(df, "date")))
           agent_options == <<Tous>> \o Sorted(DropNa(Unique(Column(df, "agent"))))
           zone_options == <<Toutes>> \o Sorted(DropNa(Unique(Column(df, "zone"))))
       IN  /\ start_date' \in date_min..date_max
           /\ end_date' \in date_min..date_max
           /\ agents' = agent_options
           /\ zones' = zone_options
           /\ selected_agent' \in Range(agent_options)
           /\ selected_zone' \in Range(zone_options)
    /\ rendered' = rendered \o <<"sidebar">>
    /\ pc' = "filters"
    /\ UNCHANGED <<remote, df, filtered_df, kpi, agent_performance,
                   performance_df, best_agent>>

Filter ==
    /\ pc = "filters"
    /\ filtered_df' = ApplyFilters(df, start_date, end_date, selected_agent,
                                   selected_zone)
    /\ pc' = "filtered"
    /\ UNCHANGED <<remote, df, rendered, start_date, end_date, selected_agent,
                   selected_zone, agents, zones, kpi, agent_performance,
                   performance_df, best_agent>>

NoSelection ==
    /\ pc = "filtered"
    /\ filtered_df = <<>>
    /\ rendered' = Append(rendered, "warning: Aucune donnee disponible")
    /\ pc' = "done"
    /\ UNCHANGED <<remote, df, start_date, end_date, selected_agent,
                   selected_zone, agents, zones, filtered_df, kpi,
                   agent_performance, performance_df, best_agent>>

\* Metriques summing over the unfiltered frame.
MetriquesOfDf ==
    /\ pc = "filtered"
    /\ filtered_df # <<>>
    /\ kpi' = Overview(df)
    /\ rendered' = rendered \o <<"overview">>
    /\ pc' = "overview"
    /\ UNCHANGED <<remote, df, start_date, end_date, selected_agent,
                   selected_zone, agents, zones, filtered_df,
                   agent_performance, performance_df, best_agent>>

Metriques ==
    /\ pc = "filtered"
    /\ filtered_df # <<>>
    /\ kpi' = Overview(filtered_df)
    /\ rendered' = rendered \o <<"overview">>
    /\ pc' = "overview"
    /\ UNCHANGED <<remote, df, start_date, end_date, selected_agent,
                   selected_zone, agents, zones, filtered_df,
                   agent_performance, performance_df, best_agent>>

\* pd.DataFrame([]) has no 'Score Performance' column: sort_values raises
\* KeyError and the script run ends there.
ClassementKeyError ==
    /\ pc = "overview"
    /\ AgentPerformance(filtered_df) = <<>>
    /\ agent_performance' = <<>>
    /\ rendered' = rendered \o <<"classement", "exception: KeyError">>
    /\ pc' = "crashed"
    /\ UNCHANGED <<remote, df, start_date, end_date, selected_agent,
                   selected_zone, agents, zones, filtered_df, kpi,
                   performance_df, best_agent>>

Classement ==
    /\ pc = "overview"
    /\ AgentPerformance(filtered_df) # <<>>
    /\ agent_performance' = AgentPerformance(filtered_df)
    /\ performance_df' \in SortValues(AgentPerformance(filtered_df))
    /\ rendered' = rendered \o <<"classement">>
    /\ pc' = "ranked"
    /\ UNCHANGED <<remote, df, start_date, end_date, selected_agent,
                   selected_zone, agents, zones, filtered_df, kpi, best_agent>>

Gauge ==
    /\ pc = "ranked"
    /\ best_agent' = IF performance_df # <<>> THEN <<performance_df[1]>> ELSE <<>>
    /\ rendered' = rendered \o <<"top10">>
                     \o (IF performance_df # <<>> THEN <<"gauge">> ELSE <<>>)
                     \o <<"detail">>
    /\ pc' = "charts"
    /\ UNCHANGED <<remote, df, start_date, end_date, selected_agent,
                   selected_zone, agents, zones, filtered_df, kpi,
                   agent_performance, performance_df>>

Sections ==
    /\ pc = "charts"
    /\ rendered' = rendered \o <<"evolution">>
         \o (IF selected_zone = Toutes /\ NUnique(Column(filtered_df, "zone")) > 1
             THEN <<"zones">> ELSE <<>>)
         \o (IF selected_agent # Tous THEN <<"agent">> ELSE <<>>)
         \o <<"footer">>
    /\ pc' = "done"
    /\ UNCHANGED <<remote, df, start_date, end_date, selected_agent,
                   selected_zone, agents, zones, filtered_df, kpi,
                   agent_performance, performance_df, best_agent>>

Next ==
    \/ LoadData
    \/ LoadDataFails
    \/ NoData
    \/ Sidebar
    \/ Filter
    \/ NoSelection
    \/ Metriques
    \/ ClassementKeyError
    \/ Classement
    \/ Gauge
    \/ Sections

Spec == Init /\ [][Next]_vars

SpecScore == InitScore /\ [][Next]_vars

\* ------------------------------------------------------- claim vocabulary
Shown(element) == \E i \in 1..Len(rendered) : rendered[i] = element

\* The filters have been applied in this render cycle.
Filtered ==
    \/ pc \in {"filtered", "overview", "ranked", "crashed", "charts"}
    \/ pc = "done" /\ df # <<>>

\* The per-agent loop has run in this render cycle.
Classed == Shown("classement")

\* The loop has run and the table has been sorted.
Ranked == Classed /\ pc # "crashed"

RECURSIVE RowsFrom(_, _, _)
RowsFrom(frame, K, i) ==
    IF i > Len(frame) THEN <<>>
    ELSE (IF i \in K THEN <<frame[i]>> ELSE <<>>) \o RowsFrom(frame, K, i + 1)

\* The rows of frame whose index is in K, in file order.
RowsAt(frame, K) == RowsFrom(frame, K, 1)

InPeriod(r) == start_date <= r.date /\ r.date <= end_date

RECURSIVE SumAt(_, _, _)
SumAt(frame, K, col) ==
    IF K = {} THEN 0
    ELSE LET i == CHOOSE j \in K : TRUE
         IN  frame[i][col] + SumAt(frame, K \ {i}, col)

RowsOf(agent) == { i \in 1..Len(filtered_df) : filtered_df[i].agent = agent }

\* P and N of the ratio score, in tenths, from the agent's filtered records.
PositiveSum(agent) ==
    20 * SumAt(filtered_df, RowsOf(agent), "total_interaction_appel_par_agent")
      + 30 * SumAt(filtered_df, RowsOf(agent), "total_commandes_journalier")
      + 15 * SumAt(filtered_df, RowsOf(agent), "total_notation_par_agent")

NegativeSum(agent) ==
    20 * SumAt(filtered_df, RowsOf(agent), "total_reclamation_par_agent")
      + 15 * SumAt(filtered_df, RowsOf(agent), "total_suivi_reclamation_par_agent")
      + 18 * SumAt(filtered_df, RowsOf(agent),
                   "total_suivi_livraison_impossible_par_agent")

Position(name) == CHOOSE k \in 1..Len(NameOrder) : NameOrder[k] = name

Conforming(frame) ==
    \A i \in 1..Len(frame) : \A col \in MetricColumns : frame[i][col] >= 0

PresentAgents == { filtered_df[i].agent : i \in 1..Len(filtered_df) } \ {NaN}

MissingAgentRows == SelectSeq(filtered_df, LAMBDA r : r.agent = NaN)

ObservedAgents == Range(Tail(agents))
ObservedZones == Range(Tail(zones))

\* Set-membership filtering, built from the code's filter applied row by
\* row: a row is kept when some member of each set keeps it.
SetFilter(frame, A, Z) ==
    SelectSeq(frame, LAMBDA r : \E a \in A, z \in Z :
        ApplyFilters(<<r>>, start_date, end_date, a, z) # <<>>)

\* ------------------------------------------------------------------ claims

\* C1: the filtered dataset holds exactly the loaded records, in file order,
\* whose date lies in [start_date, end_date] (both inclusive), whose agent
\* is the selected one unless 'Tous' is selected, and whose zone is the
\* selected one unless 'Toutes' is selected.
C1_FilteringExact ==
    Filtered =>
        filtered_df = RowsAt(df,
            { i \in 1..Len(df) :
                /\ InPeriod(df[i])
                /\ (selected_agent = Tous \/ df[i].agent = selected_agent)
                /\ (selected_zone = Toutes \/ df[i].zone = selected_zone) })

C1_Witness ==
    /\ pc = "filtered"
    /\ selected_agent # Tous
    /\ selected_zone # Toutes
    /\ filtered_df # <<>>
    /\ filtered_df[1].date = end_date
    /\ \E i \in 1..Len(df) : ~InPeriod(df[i])

\* C2 as stated: filtering with the agent and zone sets resolved to the
\* observed values (the option lists) keeps exactly the records of the date
\* range, and so does selecting 'Tous' and 'Toutes'.
C2_AllIsNoRestriction ==
    Filtered =>
        /\ SetFilter(df, ObservedAgents, ObservedZones)
             = RowsAt(df, { i \in 1..Len(df) : InPeriod(df[i]) })
        /\ (selected_agent = Tous /\ selected_zone = Toutes) =>
             filtered_df = RowsAt(df, { i \in 1..Len(df) : InPeriod(df[i]) })

\* C2 amended: selecting 'Tous' and 'Toutes' keeps exactly the records of
\* the date range; filtering with the sets resolved to the observed values
\* keeps those of them whose agent and zone are both present.
C2_AllIsNoRestrictionButMissing ==
    Filtered =>
        /\ SetFilter(df, ObservedAgents, ObservedZones)
             = RowsAt(df, { i \in 1..Len(df) :
                    InPeriod(df[i]) /\ df[i].agent # NaN /\ df[i].zone # NaN })
        /\ (selected_agent = Tous /\ selected_zone = Toutes) =>
             filtered_df = RowsAt(df, { i \in 1..Len(df) : InPeriod(df[i]) })

C2_Witness ==
    /\ pc = "filtered"
    /\ selected_agent = Tous
    /\ selected_zone = Toutes
    /\ \E i \in 1..Len(filtered_df) :
          filtered_df[i].agent = NaN \/ filtered_df[i].zone = NaN
    /\ SetFilter(df, ObservedAgents, ObservedZones) # <<>>
    /\ Len(SetFilter(df, ObservedAgents, ObservedZones)) < Len(filtered_df)

\* C3: the per-agent table has exactly one row per distinct agent present
\* in the filtered dataset, no row for an agent without a filtered record,
\* and as many rows as the 'Agents actifs' metric shows.
C3_OneRowPerPresentAgent ==
    Classed =>
        /\ { agent_performance[i].Agent : i \in 1..Len(agent_performance) }
             = PresentAgents
        /\ Len(agent_performance) = Cardinality(PresentAgents)
        /\ \A a \in AgentNames \cup {NaN} :
              RowsOf(a) = {} =>
                 \A i \in 1..Len(agent_performance) : agent_performance[i].Agent # a
        /\ Len(agent_performance) = kpi.total_agents
        /\ Ranked =>
              /\ Len(performance_df) = kpi.total_agents
              /\ Range(performance_df) = Range(agent_performance)

C3_Witness ==
    /\ pc = "ranked"
    /\ selected_agent = Tous
    /\ Len(performance_df) = 1
    /\ \E a \in Range(DropNa(Column(df, "agent"))) : RowsOf(a) = {}
    /\ MissingAgentRows # <<>>

\* C4: each row's score is min(100, P / (P + N) * 100), P and N being the
\* weighted sums over that agent's filtered records, whenever P + N # 0.
C4_RatioFormula ==
    Classed =>
        \A i \in 1..Len(agent_performance) :
            LET row == agent_performance[i]
                P == PositiveSum(row.Agent)
                D == PositiveSum(row.Agent) + NegativeSum(row.Agent)
            IN  D # 0 =>
                  /\ row.Score[2] > 0
                  /\ IF (D > 0 /\ P > D) \/ (D < 0 /\ P < D)
                     THEN row.Score[1] = 100 * row.Score[2]
                     ELSE row.Score[1] * D = 100 * P * row.Score[2]

C4_Witness ==
    /\ pc = "ranked"
    /\ Len(performance_df) = 2
    /\ \E i \in 1..2 :
          /\ Cardinality(RowsOf(performance_df[i].Agent)) = 2
          /\ ScoreLess(Zero, performance_df[i].Score)
          /\ ScoreLess(performance_df[i].Score, <<100, 1>>)

\* C5: on a dataset whose metric fields are all non-negative, every score
\* of the performance table lies in [0, 100].
C5_ScoreRange ==
    (Classed /\ Conforming(df)) =>
        \A i \in 1..Len(agent_performance) :
            LET q == agent_performance[i].Score
            IN  q[2] > 0 /\ 0 <= q[1] /\ q[1] <= 100 * q[2]

C5_Witness ==
    /\ pc = "ranked"
    /\ Conforming(df)
    /\ Len(performance_df) = 2
    /\ ScoreEq(performance_df[1].Score, <<100, 1>>)
    /\ ScoreLess(Zero, performance_df[2].Score)
    /\ NegativeSum(performance_df[2].Agent) > 0

\* C6: an agent whose six metric sums are all zero, and an agent without
\* records, scores exactly 0; the division by zero is never performed.
C6_ZeroCase ==
    /\ calculate_performance_score(<<>>) = <<0, 1>>
    /\ Classed =>
         \A i \in 1..Len(agent_performance) :
            LET row == agent_performance[i]
                K == RowsOf(row.Agent)
            IN  (\A col \in MetricColumns \ {"total_sku_par_agent",
                                             "moyenne_sku_par_commande"} :
                     SumAt(filtered_df, K, col) = 0)
                  => row.Score = <<0, 1>>

C6_Witness ==
    /\ pc = "ranked"
    /\ \E i \in 1..Len(performance_df) :
          /\ PositiveSum(performance_df[i].Agent) = 0
          /\ NegativeSum(performance_df[i].Agent) = 0
          /\ Cardinality(RowsOf(performance_df[i].Agent)) = 2
          /\ performance_df[i].Score = <<0, 1>>

\* C7 as stated: the table handed to the top-10 chart and the gauge is
\* sorted descending by score, agents of equal score in ascending order of
\* agent id.
C7_RankingOrder ==
    Ranked =>
        \A i, j \in 1..Len(performance_df) :
            i < j =>
                \/ ScoreLess(performance_df[j].Score, performance_df[i].Score)
                \/ /\ ScoreEq(performance_df[i].Score, performance_df[j].Score)
                   /\ Position(performance_df[i].Agent)
                        < Position(performance_df[j].Agent)

\* C8: a failed load yields an empty dataset, and a render cycle whose
\* dataset is empty shows the error and stops: no filter widget, no
\* filtering, no overview, no ranking.
C8_LoadFailureTerminal ==
    /\ (remote.status # "ok" /\ pc # "start") => df = <<>>
    /\ (df = <<>> /\ pc \notin {"start", "loaded"}) =>
          /\ pc = "done"
          /\ rendered[Len(rendered)] = "error: Impossible de charger"
          /\ \A e \in {"sidebar", "warning: Aucune donnee disponible",
                       "overview", "classement", "top10", "gauge"} : ~Shown(e)
          /\ agents = <<>>
          /\ zones = <<>>
          /\ filtered_df = <<>>
          /\ kpi = NoKpi
          /\ agent_performance = <<>>
          /\ performance_df = <<>>
          /\ best_agent = <<>>

C8_Witness ==
    /\ pc = "done"
    /\ remote.status = "no_date_column"
    /\ rendered = <<"title", "error: Erreur lors du chargement",
                    "error: Impossible de charger">>

\* C9 as stated: once the empty-view guard is passed, the per-agent table
\* has at least one row, so sorting it and taking its first row are defined.
C9_RankingNonEmpty ==
    Classed => (Len(agent_performance) >= 1 /\ pc # "crashed")

\* C10 as stated: each overview total equals the sum of the corresponding
\* column of the per-agent table.
C10_TotalsConserved ==
    Classed =>
        /\ kpi.total_commandes = Sum(agent_performance, "Commandes")
        /\ kpi.total_interactions = Sum(agent_performance, "Interactions")
        /\ kpi.total_reclamations = Sum(agent_performance, "Reclamations")
        /\ kpi.total_suivi_reclamations
             = Sum(agent_performance, "SuiviReclamations")
        /\ kpi.total_livraison_impossible
             = Sum(agent_performance, "LivraisonsImpossibles")
        /\ kpi.total_notations = Sum(agent_performance, "NotationsLivreurs")

\* C10 amended: each overview total equals the sum of the corresponding
\* column of the per-agent table plus the sum of that metric over the
\* filtered records whose agent is missing.
C10_TotalsConservedUpToMissing ==
    Classed =>
        /\ kpi.total_commandes = Sum(agent_performance, "Commandes")
             + SumAt(filtered_df, RowsOf(NaN), "total_commandes_journalier")
        /\ kpi.total_interactions = Sum(agent_performance, "Interactions")
             + SumAt(filtered_df, RowsOf(NaN), "total_interaction_appel_par_agent")
        /\ kpi.total_reclamations = Sum(agent_performance, "Reclamations")
             + SumAt(filtered_df, RowsOf(NaN), "total_reclamation_par_agent")
        /\ kpi.total_suivi_reclamations
             = Sum(agent_performance, "SuiviReclamations")
                 + SumAt(filtered_df, RowsOf(NaN),
                         "total_suivi_reclamation_par_agent")
        /\ kpi.total_livraison_impossible
             = Sum(agent_performance, "LivraisonsImpossibles")
                 + SumAt(filtered_df, RowsOf(NaN),
                         "total_suivi_livraison_impossible_par_agent")
        /\ kpi.total_notations = Sum(agent_performance, "NotationsLivreurs")
             + SumAt(filtered_df, RowsOf(NaN), "total_notation_par_agent")

C10_Witness ==
    /\ pc = "ranked"
    /\ Len(performance_df) = 2
    /\ MissingAgentRows # <<>>
    /\ kpi.total_notations > Sum(agent_performance, "NotationsLivreurs")

====
